---- MODULE Spec2Model ----
(***************************************************************************)
(* Model of UniversalScraper (src/universal_scraper.py): the page          *)
(* classifier, the six extraction strategies, the selector-driven          *)
(* extractor, and scrape_url with its pagination loop.                     *)
(*                                                                         *)
(* Representation.                                                         *)
(*  - A Python str is a sequence of non-empty chunks; "" is <<>> and       *)
(*    concatenation is \o.  A str is truthy iff it is not <<>>.            *)
(*  - A Python value stored in a record is [t, s, n, l]: t is the type     *)
(*    tag ("str", "int", "none", "list"), s the str, n the int, l the      *)
(*    list items.                                                          *)
(*  - A Python dict is the sequence of its <<key, value>> pairs in         *)
(*    insertion order; keys are strs.                                      *)
(*  - A parsed document (BeautifulSoup) is the sequence of its element     *)
(*    nodes in document order; node 0 is the soup itself.                  *)
(***************************************************************************)
EXTENDS Integers, Sequences, FiniteSets, TLC

(***************************************************************************)
(* Bounds of the explored inputs                                           *)
(***************************************************************************)
MaxCalls == 2

MaxDataRows == 2

MaxListItems == 6

MaxPages == 2

(***************************************************************************)
(* State                                                                   *)
(***************************************************************************)
VARIABLES
    self_data,  \* self.data: the records accumulated by the scraper
    pc,         \* position of the running scrape_url call, or "idle"
    ncalls,     \* scrape_url calls started so far
    config,     \* config argument of the running call
    site,       \* the pages the browser shows: page 1, then after each click
    page_idx,   \* index in site of the page the browser shows
    browser,    \* "open" or "closed"
    ldata,      \* local `data` of scrape_url (first page's records)
    all_data,   \* local `all_data` of _handle_pagination
    page_num,   \* loop variable of _handle_pagination
    invoked,    \* functions the running or last call invoked, in order
    extracted,  \* per page of the running or last call: extractor and records
    runs,       \* the _auto_detect_and_scrape runs so far: document, url and result
    caught,     \* exception handled by the last call's except clause
    returned,   \* how the last call ended and the value it returned
    data_before,\* self.data when the running or last call started
    soup,       \* document a function is applied to
    fn,         \* function last applied to soup
    out         \* its result

vars == <<self_data, pc, ncalls, config, site, page_idx, browser, ldata, all_data,
          page_num, invoked, extracted, runs, caught, returned, data_before,
          soup, fn, out>>

(***************************************************************************)
(* Python values                                                           *)
(***************************************************************************)
PyStr(s) == [t |-> "str", s |-> s, n |-> 0, l |-> <<>>]

PyInt(i) == [t |-> "int", s |-> <<>>, n |-> i, l |-> <<>>]

PyNone == [t |-> "none", s |-> <<>>, n |-> 0, l |-> <<>>]

PyList(items) == [t |-> "list", s |-> <<>>, n |-> 0, l |-> items]

\* Python truthiness of a value
Truthy(v) ==
    CASE v.t = "none" -> FALSE
      [] v.t = "str" -> v.s # <<>>
      [] v.t = "int" -> v.n # 0
      [] OTHER -> v.l # <<>>

\* Python `a or b`
PyOr(a, b) == IF Truthy(a) THEN a ELSE b

K(name) == <<name>>

(***************************************************************************)
(* Python dicts (insertion-ordered)                                        *)
(***************************************************************************)
HasKey(d, k) == \E i \in 1..Len(d) : d[i][1] = k

\* d.get(k)
DictGet(d, k) ==
    IF HasKey(d, k)
    THEN d[CHOOSE i \in 1..Len(d) : d[i][1] = k][2]
    ELSE PyNone

\* d[k] = v
DictSet(d, k, v) ==
    IF HasKey(d, k)
    THEN [i \in 1..Len(d) |-> IF d[i][1] = k THEN <<k, v>> ELSE d[i]]
    ELSE Append(d, <<k, v>>)

RECURSIVE Flatten(_)
Flatten(ss) == IF ss = <<>> THEN <<>> ELSE Head(ss) \o Flatten(Tail(ss))

(***************************************************************************)
(* Text tables: what the chunks of the explored documents contain          *)
(***************************************************************************)
\* chunks whose lower-cased text contains one of the ecommerce indicators
IndicatorChunks == {"Buy now", "Price: 10", "Item A"}

\* number of characters of a chunk
ChunkLen(c) ==
    CASE c = "ok" -> 2
      [] c = "lorem300" -> 300
      [] c = "lorem300[:200]" -> 200
      [] OTHER -> 5

\* number of whitespace-separated words of a chunk
ChunkWords(c) == IF c \in {"Buy now", "Price: 10", "Item A", "Read more"} THEN 2 ELSE 1

\* the chunk cut to its first k characters
CutChunk(c, k) ==
    IF c = "lorem300" /\ k = 200 THEN "lorem300[:200]" ELSE c

RECURSIVE StrLen(_)
StrLen(s) == IF s = <<>> THEN 0 ELSE ChunkLen(Head(s)) + StrLen(Tail(s))

\* s[:k]
RECURSIVE Truncate(_, _)
Truncate(s, k) ==
    IF s = <<>> \/ k <= 0 THEN <<>>
    ELSE IF ChunkLen(Head(s)) <= k
         THEN <<Head(s)>> \o Truncate(Tail(s), k - ChunkLen(Head(s)))
         ELSE <<CutChunk(Head(s), k)>>

(***************************************************************************)
(* Documents                                                               *)
(***************************************************************************)
NoAttr == [has |-> FALSE, v |-> <<>>]

Attr(v) == [has |-> TRUE, v |-> v]

\* an element: tag name, class tokens, index of the parent element (0: the
\* soup), own text (placed before its children) and the attributes read
Node(tag, cls, parent, text) ==
    [tag |-> tag, cls |-> cls, parent |-> parent, text |-> text,
     href |-> NoAttr, src |-> NoAttr, dsrc |-> NoAttr]

A(parent, text, href) == [Node("a", {}, parent, text) EXCEPT !.href = href]

Img(parent, src, dsrc) == [Node("img", {}, parent, <<>>) EXCEPT !.src = src, !.dsrc = dsrc]

\* fragment g placed after fragment f, both under the same parent
Join(f, g) ==
    f \o [i \in 1..Len(g) |->
            [g[i] EXCEPT !.parent = IF @ = 0 THEN 0 ELSE @ + Len(f)]]

RECURSIVE JoinAll(_)
JoinAll(fs) == IF fs = <<>> THEN <<>> ELSE Join(Head(fs), JoinAll(Tail(fs)))

\* fragment f placed inside element n
Wrap(n, f) ==
    <<[n EXCEPT !.parent = 0]>> \o
    [i \in 1..Len(f) |-> [f[i] EXCEPT !.parent = @ + 1]]

\* n is i or an ancestor of i
RECURSIVE IsAncOrSelf(_, _, _)
IsAncOrSelf(doc, n, i) ==
    IF i = n THEN TRUE
    ELSE IF i = 0 THEN FALSE
    ELSE IsAncOrSelf(doc, n, doc[i].parent)

IsDesc(doc, n, i) == i # n /\ IsAncOrSelf(doc, n, i)

Indices(doc) == [i \in 1..Len(doc) |-> i]

\* the class tokens and the pattern atoms (plain substrings, or the regex
\* product.*name) that occur in them
ClassAtoms(c) ==
    CASE c = "card" -> {"card"}
      [] c = "product-card" -> {"product", "card"}
      [] c = "tile" -> {"tile"}
      [] c = "grid-item" -> {"grid-item", "item"}
      [] c = "box" -> {"box"}
      [] c = "item" -> {"item"}
      [] c = "product" -> {"product"}
      [] c = "product-name" -> {"product", "product.*name"}
      [] c = "title" -> {"title"}
      [] c = "heading" -> {"heading"}
      [] c = "price" -> {"price"}
      [] c = "rating" -> {"rating"}
      [] c = "summary" -> {"summary"}
      [] c = "post" -> {"post"}
      [] c = "content" -> {"content"}
      [] c = "author" -> {"author"}
      [] c = "date" -> {"date"}
      [] OTHER -> {}

\* re.compile(alternatives).search on a class attribute
ClassMatches(node, alts) == \E c \in node.cls : ClassAtoms(c) \cap alts # {}

\* find_all under element n (0: the soup) of the elements satisfying Test
FindAll(doc, n, Test(_)) ==
    SelectSeq(Indices(doc), LAMBDA i : IsDesc(doc, n, i) /\ Test(doc[i]))

\* find_all(..., recursive=False)
FindChildren(doc, n, Test(_)) ==
    SelectSeq(Indices(doc), LAMBDA i : doc[i].parent = n /\ Test(doc[i]))

\* find: the first match, or 0 for None
Find(doc, n, Test(_)) ==
    LET found == FindAll(doc, n, Test) IN
    IF found = <<>> THEN 0 ELSE found[1]

\* get_text(strip=True) of element n (0: the soup)
GetText(doc, n) ==
    Flatten([i \in 1..Len(doc) |->
               IF IsAncOrSelf(doc, n, i) THEN doc[i].text ELSE <<>>])

\* element.get(attr)
GetAttr(a) == IF a.has THEN PyStr(a.v) ELSE PyNone

\* find_next_sibling(): the next element with the same parent, or 0
FindNextSibling(doc, i) ==
    LET sibs == SelectSeq(Indices(doc), LAMBDA j : j > i /\ doc[j].parent = doc[i].parent) IN
    IF sibs = <<>> THEN 0 ELSE sibs[1]

(***************************************************************************)
(* Tag and class tests used by the scraper                                 *)
(***************************************************************************)
IsTag(node, tags) == node.tag \in tags

HeadingTags == {"h1", "h2", "h3", "h4", "h5", "h6"}

Texts(doc, idxs) == [k \in 1..Len(idxs) |-> GetText(doc, idxs[k])]

(***************************************************************************)
(* _detect_page_type                                                       *)
(***************************************************************************)
TableCheck(doc) ==
    \E t \in 1..Len(doc) :
        /\ doc[t].tag = "table"
        /\ Len(FindAll(doc, t, LAMBDA n : IsTag(n, {"tr"}))) > 2

\* any(indicator in soup.get_text().lower() ...)
PageTextHasIndicator(doc) ==
    \E i \in 1..Len(doc) : \E k \in 1..Len(doc[i].text) :
        doc[i].text[k] \in IndicatorChunks

EcommerceCheck(doc) ==
    /\ PageTextHasIndicator(doc)
    /\ Len(FindAll(doc, 0, LAMBDA n : ClassMatches(n, {"product", "item"}))) > 3

CardPatterns == <<{"card"}, {"tile"}, {"grid-item"}>>

CardsCheck(doc) ==
    \E k \in 1..Len(CardPatterns) :
        Len(FindAll(doc, 0, LAMBDA n : ClassMatches(n, CardPatterns[k]))) > 3

\* the extraction threshold used by the classifier
ListCheck_Over3(doc) ==
    \E l \in 1..Len(doc) :
        /\ doc[l].tag \in {"ul", "ol"}
        /\ Len(FindAll(doc, l, LAMBDA n : IsTag(n, {"li"}))) > 3

ListCheck(doc) ==
    \E l \in 1..Len(doc) :
        /\ doc[l].tag \in {"ul", "ol"}
        /\ Len(FindAll(doc, l, LAMBDA n : IsTag(n, {"li"}))) > 5

ArticleCheck(doc) ==
    \/ Find(doc, 0, LAMBDA n : IsTag(n, {"article"})) # 0
    \/ \E ind \in {"article", "post", "blog", "content"} :
          Find(doc, 0, LAMBDA n : ClassMatches(n, {ind})) # 0

\* the cards check moved in front of the table check
DetectPageType_CardsFirst(doc) ==
    IF CardsCheck(doc) THEN "cards"
    ELSE IF TableCheck(doc) THEN "table"
    ELSE IF EcommerceCheck(doc) THEN "ecommerce"
    ELSE IF ListCheck(doc) THEN "list"
    ELSE IF ArticleCheck(doc) THEN "article"
    ELSE "generic"

DetectPageType(doc) ==
    IF TableCheck(doc) THEN "table"
    ELSE IF EcommerceCheck(doc) THEN "ecommerce"
    ELSE IF CardsCheck(doc) THEN "cards"
    ELSE IF ListCheck(doc) THEN "list"
    ELSE IF ArticleCheck(doc) THEN "article"
    ELSE "generic"

(***************************************************************************)
(* _scrape_tables                                                          *)
(***************************************************************************)
DigitStr(i) == <<"0", "1", "2", "3", "4", "5", "6", "7", "8", "9">>[i + 1]

\* f"Column_{i+1}" for i in range(n)
ColumnNames(n) == [i \in 1..n |-> <<"Column_", DigitStr(i)>>]

\* headers of a table whose first row has the cell texts hdrTexts
TableHeaders(hdrTexts) ==
    IF hdrTexts = <<>> \/ \A i \in 1..Len(hdrTexts) : hdrTexts[i] = <<>>
    THEN ColumnNames(Len(hdrTexts))
    ELSE hdrTexts

\* the cells beyond the headers kept under generated column names
RECURSIVE RowData_KeepsExtraCells(_, _, _, _)
RowData_KeepsExtraCells(headers, cellTexts, idx, row_data) ==
    IF idx > Len(cellTexts) THEN row_data
    ELSE RowData_KeepsExtraCells(headers, cellTexts, idx + 1,
                 IF idx - 1 < Len(headers)
                 THEN DictSet(row_data, headers[idx], PyStr(cellTexts[idx]))
                 ELSE DictSet(row_data, <<"Column_", DigitStr(idx)>>, PyStr(cellTexts[idx])))

\* the loop over enumerate(cells), from cell idx (1-based) on
RECURSIVE RowData(_, _, _, _)
RowData(headers, cellTexts, idx, row_data) ==
    IF idx > Len(cellTexts) THEN row_data
    ELSE RowData(headers, cellTexts, idx + 1,
                 IF idx - 1 < Len(headers)
                 THEN DictSet(row_data, headers[idx], PyStr(cellTexts[idx]))
                 ELSE row_data)

\* the records of one data row of table table_idx (0-based)
RowRecords(doc, headers, row, table_idx) ==
    LET cells == FindAll(doc, row, LAMBDA n : IsTag(n, {"td", "th"}))
        row_data == RowData(headers, Texts(doc, cells), 1, <<>>)
    IN  IF Len(cells) = 0 THEN <<>>
        ELSE IF row_data # <<>>
             THEN <<DictSet(row_data, K("_table_index"), PyInt(table_idx))>>
             ELSE <<>>

\* the records of one table
TableRecords(doc, table, table_idx) ==
    LET rows == FindAll(doc, table, LAMBDA n : IsTag(n, {"tr"})) IN
    IF Len(rows) < 2 THEN <<>>
    ELSE LET headers == TableHeaders(Texts(doc,
                            FindAll(doc, rows[1], LAMBDA n : IsTag(n, {"th", "td"}))))
         IN  Flatten([r \in 1..(Len(rows) - 1) |->
                        RowRecords(doc, headers, rows[r + 1], table_idx)])

ScrapeTables(doc) ==
    LET tables == FindAll(doc, 0, LAMBDA n : IsTag(n, {"table"})) IN
    Flatten([t \in 1..Len(tables) |-> TableRecords(doc, tables[t], t - 1)])

(***************************************************************************)
(* _scrape_lists                                                           *)
(***************************************************************************)
\* the link field: set when the element has an <a> with a truthy href
WithLink(doc, el, rec) ==
    LET link == Find(doc, el, LAMBDA n : IsTag(n, {"a"})) IN
    IF link # 0 /\ Truthy(GetAttr(doc[link].href))
    THEN DictSet(rec, K("link"), GetAttr(doc[link].href))
    ELSE rec

ListItemRecord(doc, item, list_idx, item_idx) ==
    WithLink(doc, item,
        << <<K("text"), PyStr(GetText(doc, item))>>,
           <<K("_list_index"), PyInt(list_idx)>>,
           <<K("_item_index"), PyInt(item_idx)>> >>)

\* smallest number of direct items of a list that is extracted
MinListItems == 3

\* no list is skipped
ListRecords_NoThreshold(doc, lst, list_idx) ==
    LET items == FindChildren(doc, lst, LAMBDA n : IsTag(n, {"li"})) IN
    [k \in 1..Len(items) |-> ListItemRecord(doc, items[k], list_idx, k - 1)]

\* the items found at any depth under the list
ListRecords_Recursive(doc, lst, list_idx) ==
    LET items == FindAll(doc, lst, LAMBDA n : IsTag(n, {"li"})) IN
    IF Len(items) < MinListItems THEN <<>>
    ELSE [k \in 1..Len(items) |-> ListItemRecord(doc, items[k], list_idx, k - 1)]

ListRecords(doc, lst, list_idx) ==
    LET items == FindChildren(doc, lst, LAMBDA n : IsTag(n, {"li"})) IN
    IF Len(items) < MinListItems THEN <<>>
    ELSE [k \in 1..Len(items) |-> ListItemRecord(doc, items[k], list_idx, k - 1)]

ScrapeLists(doc) ==
    LET lists == FindAll(doc, 0, LAMBDA n : IsTag(n, {"ul", "ol"})) IN
    Flatten([l \in 1..Len(lists) |-> ListRecords(doc, lists[l], l - 1)])

(***************************************************************************)
(* _scrape_cards                                                           *)
(***************************************************************************)
CardSelectors == <<{"card"}, {"tile"}, {"grid-item"}, {"box"}>>

\* soup.find_all('div', selector)
CardCandidates(doc, k) ==
    FindAll(doc, 0, LAMBDA n : IsTag(n, {"div"}) /\ ClassMatches(n, CardSelectors[k]))

\* the candidate sets merged instead of compared
RECURSIVE SelectCards_Union(_, _, _)
SelectCards_Union(doc, k, cards) ==
    IF k > Len(CardSelectors) THEN cards
    ELSE SelectCards_Union(doc, k + 1, cards \o CardCandidates(doc, k))

\* the loop keeping the first strictly largest candidate set
RECURSIVE SelectCards(_, _, _)
SelectCards(doc, k, cards) ==
    IF k > Len(CardSelectors) THEN cards
    ELSE SelectCards(doc, k + 1,
                     IF Len(CardCandidates(doc, k)) > Len(cards)
                     THEN CardCandidates(doc, k) ELSE cards)

\* the image field: set whenever the element has an <img>
WithImage(doc, el, rec) ==
    LET img == Find(doc, el, LAMBDA n : IsTag(n, {"img"})) IN
    IF img # 0
    THEN DictSet(rec, K("image"), PyOr(GetAttr(doc[img].src), GetAttr(doc[img].dsrc)))
    ELSE rec

\* a field holding the text of element el, when el was found
WithText(doc, el, key, rec) ==
    IF el # 0 THEN DictSet(rec, key, PyStr(GetText(doc, el))) ELSE rec

CardRecord(doc, card, card_idx) ==
    LET h == Find(doc, card, LAMBDA n : IsTag(n, HeadingTags))
        title == IF h # 0 THEN h
                 ELSE Find(doc, card, LAMBDA n : ClassMatches(n, {"title", "heading"}))
        desc == Find(doc, card, LAMBDA n : ClassMatches(n, {"description", "excerpt", "summary"}))
        r1 == WithText(doc, title, K("title"), << <<K("_card_index"), PyInt(card_idx)>> >>)
        r2 == WithText(doc, desc, K("description"), r1)
        r3 == WithLink(doc, card, r2)
        r4 == WithImage(doc, card, r3)
    IN  IF ~HasKey(r4, K("title"))
        THEN DictSet(r4, K("text"), PyStr(Truncate(GetText(doc, card), 200)))
        ELSE r4

ScrapeCards(doc) ==
    LET cards == SelectCards(doc, 1, <<>>) IN
    [k \in 1..Len(cards) |-> CardRecord(doc, cards[k], k - 1)]

(***************************************************************************)
(* _scrape_article                                                         *)
(***************************************************************************)
\* a or b on elements (an element is always truthy, None is 0)
OrEl(a, b) == IF a # 0 THEN a ELSE b

\* '\n\n'.join(parts)
RECURSIVE JoinParagraphs(_)
JoinParagraphs(parts) ==
    IF parts = <<>> THEN <<>>
    ELSE IF Len(parts) = 1 THEN parts[1]
    ELSE parts[1] \o <<"\n\n">> \o JoinParagraphs(Tail(parts))

\* len(s.split()): chunks are stripped, so adjacent chunks share a word
RECURSIVE WordCount(_, _)
WordCount(s, inWord) ==
    IF s = <<>> THEN 0
    ELSE IF Head(s) = "\n\n" THEN WordCount(Tail(s), FALSE)
    ELSE ChunkWords(Head(s)) - (IF inWord THEN 1 ELSE 0) + WordCount(Tail(s), TRUE)

\* [img.get('src') or img.get('data-src') for img in images if ...]
ArticleImages(doc) ==
    LET images == FindAll(doc, 0, LAMBDA n : IsTag(n, {"img"}))
        kept == SelectSeq(images, LAMBDA i :
                    Truthy(GetAttr(doc[i].src)) \/ Truthy(GetAttr(doc[i].dsrc)))
    IN  [k \in 1..Len(kept) |->
            <<PyOr(GetAttr(doc[kept[k]].src), GetAttr(doc[kept[k]].dsrc)).s>>]

WithContent(doc, content, rec) ==
    IF content = 0 THEN rec
    ELSE LET paragraphs == FindAll(doc, content, LAMBDA n : IsTag(n, {"p"}))
             text == JoinParagraphs(Texts(doc, paragraphs))
         IN  DictSet(DictSet(rec, K("content"), PyStr(text)),
                     K("word_count"), PyInt(WordCount(text, FALSE)))

ScrapeArticle(doc, url) ==
    LET title == OrEl(Find(doc, 0, LAMBDA n : IsTag(n, {"h1"})),
                 OrEl(Find(doc, 0, LAMBDA n : ClassMatches(n, {"title"})),
                      Find(doc, 0, LAMBDA n : IsTag(n, {"title"}))))
        author == Find(doc, 0, LAMBDA n : ClassMatches(n, {"author", "byline", "writer"}))
        date == OrEl(Find(doc, 0, LAMBDA n : IsTag(n, {"time", "date"})),
                     Find(doc, 0, LAMBDA n : ClassMatches(n, {"date", "published"})))
        content == OrEl(Find(doc, 0, LAMBDA n : IsTag(n, {"article"})),
                   OrEl(Find(doc, 0, LAMBDA n : ClassMatches(n, {"content", "article", "post-body"})),
                        Find(doc, 0, LAMBDA n : IsTag(n, {"main"}))))
        r1 == WithText(doc, title, K("title"), << <<K("url"), PyStr(<<url>>)>> >>)
        r2 == WithText(doc, author, K("author"), r1)
        r3 == WithText(doc, date, K("date"), r2)
        r4 == WithContent(doc, content, r3)
    IN  DictSet(r4, K("images"), PyList(ArticleImages(doc)))

(***************************************************************************)
(* _scrape_products                                                        *)
(***************************************************************************)
ProductRecord(doc, product, prod_idx) ==
    LET name == OrEl(Find(doc, product, LAMBDA n : ClassMatches(n, {"product.*name", "title"})),
                     Find(doc, product, LAMBDA n : IsTag(n, {"h2", "h3", "h4"})))
        price == Find(doc, product, LAMBDA n : ClassMatches(n, {"price"}))
        rating == Find(doc, product, LAMBDA n : ClassMatches(n, {"rating", "stars"}))
        r1 == WithText(doc, name, K("name"), << <<K("_product_index"), PyInt(prod_idx)>> >>)
        r2 == WithText(doc, price, K("price"), r1)
        r3 == WithText(doc, rating, K("rating"), r2)
        r4 == WithLink(doc, product, r3)
    IN  WithImage(doc, product, r4)

\* kept when the name or price field is present, whatever its text
ProductKept_FieldPresent(rec) == HasKey(rec, K("name")) \/ HasKey(rec, K("price"))

\* prod_data.get('name') or prod_data.get('price')
ProductKept(rec) == Truthy(PyOr(DictGet(rec, K("name")), DictGet(rec, K("price"))))

ScrapeProducts(doc) ==
    LET products == FindAll(doc, 0, LAMBDA n : ClassMatches(n, {"product", "item"}))
        recs == [k \in 1..Len(products) |-> ProductRecord(doc, products[k], k - 1)]
    IN  SelectSeq(recs, ProductKept)

(***************************************************************************)
(* _scrape_generic                                                         *)
(***************************************************************************)
HeadingRecord(doc, heading) ==
    LET item == << <<K("type"), PyStr(<<doc[heading].tag>>)>>,
                   <<K("text"), PyStr(GetText(doc, heading))>> >>
        sibling == FindNextSibling(doc, heading)
    IN  IF sibling # 0
        THEN DictSet(item, K("content"), PyStr(Truncate(GetText(doc, sibling), 500)))
        ELSE item

\* the first text seen for an href is kept
RECURSIVE UniqueLinks_FirstWins(_, _, _, _)
UniqueLinks_FirstWins(doc, links, k, unique_links) ==
    IF k > Len(links) THEN unique_links
    ELSE LET href == GetAttr(doc[links[k]].href)
             text == GetText(doc, links[k])
         IN  UniqueLinks_FirstWins(doc, links, k + 1,
                 IF Truthy(href) /\ text # <<>> /\ StrLen(text) > 2
                                 /\ ~HasKey(unique_links, href.s)
                 THEN DictSet(unique_links, href.s, PyStr(text))
                 ELSE unique_links)

\* the loop filling unique_links, a dict href -> text
RECURSIVE UniqueLinks(_, _, _, _)
UniqueLinks(doc, links, k, unique_links) ==
    IF k > Len(links) THEN unique_links
    ELSE LET href == GetAttr(doc[links[k]].href)
             text == GetText(doc, links[k])
         IN  UniqueLinks(doc, links, k + 1,
                 IF Truthy(href) /\ text # <<>> /\ StrLen(text) > 2
                 THEN DictSet(unique_links, href.s, PyStr(text))
                 ELSE unique_links)

ScrapeGeneric(doc) ==
    LET headings == FindAll(doc, 0, LAMBDA n : IsTag(n, HeadingTags))
        links == FindAll(doc, 0, LAMBDA n : IsTag(n, {"a"}) /\ n.href.has)
        unique_links == UniqueLinks(doc, links, 1, <<>>)
        data == [k \in 1..Len(headings) |-> HeadingRecord(doc, headings[k])]
    IN  IF unique_links # <<>>
        THEN Append(data, << <<K("type"), PyStr(<<"links">>)>>,
                             <<K("links"), PyList([k \in 1..Len(unique_links) |->
                                   <<unique_links[k][1], unique_links[k][2].s>>])>> >>)
        ELSE data

(***************************************************************************)
(* _scrape_with_selectors                                                  *)
(***************************************************************************)
\* a CSS selector: a tag selector, a class selector, or a pattern the
\* selector engine rejects; pat is its source text
TagSel(tag) == [kind |-> "tag", arg |-> tag, pat |-> tag]

ClassSel(c) == [kind |-> "class", arg |-> c, pat |-> c]

BadSel(pat) == [kind |-> "invalid", arg |-> "", pat |-> pat]

NoException == [type |-> "", msg |-> ""]

\* what soup.select / select_one raise on a pattern that does not parse
SelectorSyntaxError(sel) == [type |-> "SelectorSyntaxError", msg |-> sel.pat]

SelMatches(node, sel) ==
    \/ sel.kind = "tag" /\ node.tag = sel.arg
    \/ sel.kind = "class" /\ sel.arg \in node.cls

\* element.select(sel); the parser wraps every document in one <body>
Select(doc, n, sel) ==
    IF sel = TagSel("body") THEN (IF n = 0 THEN <<0>> ELSE <<>>)
    ELSE FindAll(doc, n, LAMBDA x : SelMatches(x, sel))

\* the loop over selectors.items() for one container, from entry k on:
\* the item built, or the exception raised by select_one
RECURSIVE ContainerItem(_, _, _, _, _)
ContainerItem(doc, container, selectors, k, item) ==
    IF k > Len(selectors) THEN [exc |-> NoException, item |-> item]
    ELSE IF selectors[k][1] = "container"
         THEN ContainerItem(doc, container, selectors, k + 1, item)
    ELSE IF selectors[k][2].kind = "invalid"
         THEN [exc |-> SelectorSyntaxError(selectors[k][2]), item |-> item]
    ELSE LET found == Select(doc, container, selectors[k][2]) IN
         ContainerItem(doc, container, selectors, k + 1,
             IF found # <<>>
             THEN DictSet(item, K(selectors[k][1]), PyStr(GetText(doc, found[1])))
             ELSE item)

\* the loop over containers, from container c on
RECURSIVE ContainerLoop(_, _, _, _, _)
ContainerLoop(doc, containers, selectors, c, data) ==
    IF c > Len(containers) THEN [exc |-> NoException, data |-> data]
    ELSE LET r == ContainerItem(doc, containers[c], selectors, 1, <<>>) IN
         IF r.exc # NoException THEN [exc |-> r.exc, data |-> <<>>]
         ELSE ContainerLoop(doc, containers, selectors, c + 1,
                  IF r.item # <<>> THEN Append(data, r.item) ELSE data)

\* selectors.get('container', 'body')
MainSelector(selectors) ==
    IF \E k \in 1..Len(selectors) : selectors[k][1] = "container"
    THEN selectors[CHOOSE k \in 1..Len(selectors) : selectors[k][1] = "container"][2]
    ELSE TagSel("body")

\* an invalid container selector treated as matching nothing
ScrapeWithSelectors_Absorbing(doc, selectors) ==
    LET main_selector == MainSelector(selectors) IN
    IF main_selector.kind = "invalid"
    THEN [exc |-> NoException, data |-> <<>>]
    ELSE ContainerLoop(doc, Select(doc, 0, main_selector), selectors, 1, <<>>)

\* the records, or the exception that leaves the function
ScrapeWithSelectors(doc, selectors) ==
    LET main_selector == MainSelector(selectors) IN
    IF main_selector.kind = "invalid"
    THEN [exc |-> SelectorSyntaxError(main_selector), data |-> <<>>]
    ELSE ContainerLoop(doc, Select(doc, 0, main_selector), selectors, 1, <<>>)

(***************************************************************************)
(* _auto_detect_and_scrape                                                 *)
(***************************************************************************)
\* the strategy run for a page type and its records
RunStrategy(doc, url, page_type) ==
    CASE page_type = "table" -> [fn |-> "_scrape_tables", data |-> ScrapeTables(doc)]
      [] page_type = "list" -> [fn |-> "_scrape_lists", data |-> ScrapeLists(doc)]
      [] page_type = "cards" -> [fn |-> "_scrape_cards", data |-> ScrapeCards(doc)]
      [] page_type = "article" -> [fn |-> "_scrape_article", data |-> <<ScrapeArticle(doc, url)>>]
      [] page_type = "ecommerce" -> [fn |-> "_scrape_products", data |-> ScrapeProducts(doc)]
      [] OTHER -> [fn |-> "_scrape_generic", data |-> ScrapeGeneric(doc)]

\* what _auto_detect_and_scrape hands back for the page type detected and the
\* strategy run: the functions invoked in order and the records returned
Dispatched(page_type, run) ==
    [page_type |-> page_type,
     invoked |-> <<"_detect_page_type", run.fn>>,
     data |-> run.data]

\* lines 123-137, for the page type detected at line 120
Dispatch(doc, url, page_type) == Dispatched(page_type, RunStrategy(doc, url, page_type))

\* the records collected into self.data instead of a fresh list
AutoDetectAndScrape_Accumulating(doc, url) ==
    [Dispatch(doc, url, DetectPageType(doc)) EXCEPT !.data = self_data \o @]

\* an empty result retried with the generic strategy
Dispatched_Fallback(doc, r) ==
    IF r.data = <<>> /\ r.page_type # "generic"
    THEN [r EXCEPT !.invoked = Append(@, "_scrape_generic"), !.data = ScrapeGeneric(doc)]
    ELSE r

AutoDetectAndScrape_Fallback(doc, url) ==
    Dispatched_Fallback(doc, Dispatch(doc, url, DetectPageType(doc)))

AutoDetectAndScrape(doc, url) == Dispatch(doc, url, DetectPageType(doc))

(***************************************************************************)
(* The explored documents                                                  *)
(***************************************************************************)
T(chunk) == <<chunk>>

\* element with own text and inner fragment
El(tag, cls, text, inner) == Wrap(Node(tag, cls, 0, text), inner)

Leaf(tag, cls, text) == <<Node(tag, cls, 0, text)>>

Repeat(frag, n) == JoinAll([i \in 1..n |-> frag])

\* ---- tables ----
Row(cellTag, texts) ==
    El("tr", {}, <<>>, [i \in 1..Len(texts) |-> Node(cellTag, {}, 0, texts[i])])

\* a table from its rows of cell texts; the first row uses <th>
TableFrag(rows) ==
    El("table", {}, <<>>,
       JoinAll([r \in 1..Len(rows) |-> Row(IF r = 1 THEN "th" ELSE "td", rows[r])]))

HeaderRows == { <<T("Name"), T("Score")>>, <<<<>>, <<>>>>, <<>>, <<T("Name"), T("Name")>> }

DataRows == { <<T("Alice"), T("10")>>, <<<<>>, <<>>>>, <<T("Bob")>>,
              <<T("Carol"), T("7"), T("extra")>>, <<>> }

SeqsUpTo(S, n) == UNION {[1..k -> S] : k \in 0..n}

\* a table of one row followed by a table with header h
AfterShortTable(h) ==
    Join(TableFrag(<< <<T("Name")>> >>),
         TableFrag(<< h, <<T("Carol"), T("7"), T("extra")>>, <<T("Bob")>> >>))

TableDocs ==
    {<<>>, TableFrag(<<>>)} \cup
    {TableFrag(<<h>> \o rows) : h \in HeaderRows, rows \in SeqsUpTo(DataRows, MaxDataRows)} \cup
    {AfterShortTable(h) : h \in HeaderRows} \cup
    {Join(TableFrag(<< <<T("Name")>>, <<T("Alice")>> >>),
          TableFrag(<< <<T("Name"), T("Score")>>, <<T("Bob"), T("7")>> >>))}

\* ---- lists ----
PlainLi == Leaf("li", {}, T("Entry"))

LinkedLi == El("li", {}, <<>>, <<A(0, T("Read more"), Attr(T("/more")))>>)

NoHrefLi == El("li", {}, T("Entry"), <<A(0, T("ok"), NoAttr)>>)

EmptyHrefLi == El("li", {}, T("Entry"), <<A(0, T("Read more"), Attr(<<>>))>>)

ListFrag(tag, items) == El(tag, {}, <<>>, items)

\* a list whose first item holds a nested list of m plain items
NestedList(n, m) ==
    ListFrag("ul", Join(El("li", {}, T("Entry"), ListFrag("ol", Repeat(PlainLi, m))),
                        Repeat(PlainLi, n - 1)))

ListDocs ==
    {ListFrag(tag, Repeat(PlainLi, n)) : tag \in {"ul", "ol"}, n \in 0..MaxListItems} \cup
    {ListFrag("ul", Join(Repeat(li, n), Repeat(PlainLi, MaxListItems - n)))
        : li \in {LinkedLi, NoHrefLi, EmptyHrefLi}, n \in 1..2} \cup
    {Join(ListFrag("ul", Repeat(PlainLi, n)), ListFrag("ol", Repeat(LinkedLi, m)))
        : n \in {2, 3, 4, MaxListItems}, m \in {2, 3, 4}} \cup
    {NestedList(n, m) : n \in {2, 3, 4}, m \in {2, 3, 4}}

\* ---- cards and products ----
FullInner ==
    JoinAll(<< Leaf("h3", {}, T("Widget")), Leaf("span", {"price"}, T("Price: 10")),
               Leaf("p", {"summary"}, T("lorem300")),
               <<A(0, T("Read more"), Attr(T("/w")))>>,
               <<Img(0, Attr(T("w.png")), NoAttr)>> >>)

NoSrcInner == Join(Leaf("span", {"title"}, T("Widget")), <<Img(0, NoAttr, NoAttr)>>)

DataSrcInner == Join(Leaf("span", {"price"}, T("Price: 10")),
                     <<Img(0, Attr(<<>>), Attr(T("lazy.png")))>>)

NoHrefInner == Join(Leaf("h2", {}, <<>>), <<A(0, T("Read more"), NoAttr)>>)

Inners == {<<>>, FullInner, NoSrcInner, DataSrcInner, NoHrefInner}

ContainerClasses == {"card", "tile", "grid-item", "box", "product-card", "item"}

\* n containers of one tag and class
Containers(tag, c, inner, n) ==
    Repeat(El(tag, {c}, IF inner = <<>> THEN T("lorem300") ELSE <<>>, inner), n)

CardDocs ==
    {Containers(tag, c, inner, n)
        : tag \in {"div", "span"}, c \in ContainerClasses, inner \in Inners, n \in {3, 4}} \cup
    {Join(Containers(tag, c, <<>>, n), Containers("div", d, NoSrcInner, m))
        : tag \in {"div", "span"}, c \in {"card", "tile"}, d \in {"tile", "box"},
          n \in {2, 4}, m \in {2, 4, 5}} \cup
    {Join(Containers("div", "item", NoHrefInner, 2), Containers("div", "product-card", inner, 2))
        : inner \in {FullInner, DataSrcInner}}

\* ---- articles, headings and links ----
ArticleFrag ==
    El("article", {}, <<>>,
       JoinAll(<< Leaf("p", {}, T("Hello")), Leaf("p", {}, T("Read more")),
                  <<Img(0, NoAttr, NoAttr)>>, <<Img(0, NoAttr, Attr(T("lazy.png")))>> >>))

PostFrag == El("div", {"post"}, <<>>, Leaf("span", {"author"}, T("Alice")))

GenericFrags ==
    { <<>>,
      Join(Leaf("h1", {}, T("Hello")), Leaf("p", {}, T("lorem300"))),
      JoinAll(<< Leaf("h2", {}, T("Hello")),
                 <<A(0, T("Read more"), Attr(T("/a")))>>,
                 <<A(0, T("ok"), Attr(T("/b")))>>,
                 <<A(0, T("Hello"), Attr(T("/a")))>>,
                 <<A(0, T("Alice"), Attr(<<>>))>> >>),
      JoinAll(<< <<A(0, T("ok"), Attr(T("/b")))>>,
                 <<A(0, T("Read more"), Attr(T("/a")))>>,
                 Leaf("h3", {}, T("Hello")),
                 <<A(0, T("Alice"), Attr(T("/b")))>>,
                 <<A(0, T("Hello"), Attr(T("/a")))>>,
                 <<A(0, T("Carol"), NoAttr)>>,
                 <<A(0, <<>>, Attr(T("/c")))>> >>) }

\* ---- pages showing several signals at once ----
MixedDocs ==
    {JoinAll(<<t, c, l, a, g>>)
        : t \in {<<>>, TableFrag(<<<<T("Name")>>, <<T("Alice")>>, <<T("Bob")>>>>),
                 TableFrag(<<<<T("Name")>>, <<T("Alice")>>>>)},
          c \in {<<>>, Containers("div", "product-card", FullInner, 4),
                 Containers("span", "card", <<>>, 4),
                 Containers("div", "item", <<>>, 4)},
          l \in {<<>>, ListFrag("ul", Repeat(PlainLi, MaxListItems)),
                 ListFrag("ul", Repeat(PlainLi, 4))},
          a \in {<<>>, ArticleFrag, PostFrag},
          g \in GenericFrags}

Docs == TableDocs \cup ListDocs \cup CardDocs \cup MixedDocs

(***************************************************************************)
(* Configs and sites given to scrape_url                                   *)
(***************************************************************************)
DefaultMaxPages == 5

\* config=None (or an empty dict, which is falsy as well)
NoConfig ==
    [given |-> FALSE, has_selectors |-> FALSE, selectors |-> <<>>,
     pagination |-> FALSE, has_max_pages |-> FALSE, max_pages |-> 0]

SelectorSets ==
    { << <<"container", ClassSel("card")>>, <<"title", TagSel("h3")>>,
         <<"cost", ClassSel("price")>> >>,
      << <<"text", TagSel("li")>> >>,
      << <<"container", ClassSel("card")>>, <<"title", TagSel("h3")>>,
         <<"cost", BadSel("span[")>> >>,
      << <<"title", TagSel("h3")>>, <<"container", BadSel("div>>")>> >> }

Config(selectors, pagination, max_pages) ==
    [given |-> TRUE, has_selectors |-> selectors # <<>>, selectors |-> selectors,
     pagination |-> pagination, has_max_pages |-> max_pages # 0, max_pages |-> max_pages]

\* the configs explored: none, selectors only, pagination only (with and
\* without max_pages), and selectors with pagination
Configs ==
    {NoConfig} \cup
    {Config(sel, FALSE, 0) : sel \in SelectorSets} \cup
    {Config(<<>>, TRUE, mp) : mp \in 0..MaxPages} \cup
    {Config(sel, TRUE, 0) : sel \in {s \in SelectorSets : Len(s) = 1}}

\* the loop running one iteration more: range(2, max_pages + 2)
MaxPagesOf_OneMore(cfg) == (IF cfg.has_max_pages THEN cfg.max_pages ELSE DefaultMaxPages) + 1

\* config.get('max_pages', 5)
MaxPagesOf(cfg) == IF cfg.has_max_pages THEN cfg.max_pages ELSE DefaultMaxPages

Page(url, doc) == [url |-> url, doc |-> doc]

TablePage ==
    Page("http://site/t",
         TableFrag(<< <<T("Name"), T("Score")>>, <<T("Alice"), T("10")>>, <<T("Bob"), T("7")>> >>))

CardsPage == Page("http://site/c", Containers("div", "card", FullInner, 4))

ListPage == Page("http://site/l", ListFrag("ul", Repeat(PlainLi, MaxListItems)))

ArticlePage == Page("http://site/a", Join(ArticleFrag, Leaf("h1", {}, T("Hello"))))

ShortListPage == Page("http://site/s", ListFrag("ul", Repeat(PlainLi, 4)))

Sites ==
    { <<TablePage>>,
      <<ListPage, ListPage, ShortListPage>>,
      <<CardsPage, TablePage, ArticlePage, TablePage, ArticlePage, TablePage>> }

\* the pages the sites can show
Pages == UNION {{s[k] : k \in 1..Len(s)} : s \in Sites}

\* what _auto_detect_and_scrape(soup, page, url) does on each page
AutoDetected == [p \in Pages |-> AutoDetectAndScrape(p.doc, p.url)]

\* what _scrape_with_selectors(soup, selectors) does on each page
SelectorScraped ==
    [p \in Pages |-> [selectors \in SelectorSets |-> ScrapeWithSelectors(p.doc, selectors)]]

(***************************************************************************)
(* scrape_url and _handle_pagination                                       *)
(***************************************************************************)
NoOut == [page_type |-> "", invoked |-> <<>>, data |-> <<>>, exc |-> NoException]

NotReturned == [kind |-> "none", exc |-> NoException, value |-> <<>>]

FnUnchanged == UNCHANGED <<soup, fn, out>>

Init ==
    /\ self_data = <<>>
    /\ pc = "idle"
    /\ ncalls = 0
    /\ config = NoConfig
    /\ site = <<>>
    /\ page_idx = 0
    /\ browser = "closed"
    /\ ldata = <<>>
    /\ all_data = <<>>
    /\ page_num = 0
    /\ invoked = <<>>
    /\ extracted = <<>>
    /\ runs = {}
    /\ caught = NoException
    /\ returned = NotReturned
    /\ data_before = <<>>
    /\ soup = <<>>
    /\ fn = "none"
    /\ out = NoOut

\* lines 43-54: the browser is launched and a page opened
ScrapeUrl(cfg, s) ==
    /\ pc = "idle"
    /\ ncalls < MaxCalls
    /\ pc' = "goto"
    /\ ncalls' = ncalls + 1
    /\ config' = cfg
    /\ site' = s
    /\ page_idx' = 0
    /\ browser' = "open"
    /\ ldata' = <<>>
    /\ all_data' = <<>>
    /\ page_num' = 0
    /\ invoked' = <<>>
    /\ extracted' = <<>>
    /\ caught' = NoException
    /\ returned' = NotReturned
    /\ data_before' = self_data
    /\ UNCHANGED <<self_data, runs>>
    /\ FnUnchanged

\* the except clause (exc raised) or the normal end of the try block, then
\* finally: browser.close(), and return self.data
Return(new_data, exc) ==
    /\ self_data' = new_data
    /\ caught' = exc
    /\ browser' = "closed"
    /\ returned' = [kind |-> "value", exc |-> NoException, value |-> new_data]
    /\ pc' = "idle"

\* page.goto raises (timeout, navigation error)
GotoRaises ==
    /\ pc = "goto"
    /\ Return(self_data, [type |-> "TimeoutError", msg |-> "goto"])
    /\ UNCHANGED <<ncalls, config, site, page_idx, ldata, all_data, page_num,
                   invoked, extracted, runs, data_before>>
    /\ FnUnchanged

\* the first page's records appended to self.data before pagination starts
FirstPageDone_AppendsEarly(by, first) ==
    /\ extracted' = << [by |-> by, data |-> first] >>
    /\ IF config.given /\ config.pagination
       THEN /\ pc' = "paginate"
            /\ ldata' = <<>>
            /\ all_data' = <<>>
            /\ page_num' = 2
            /\ self_data' = self_data \o first
            /\ UNCHANGED <<caught, browser, returned>>
       ELSE /\ Return(self_data \o first, NoException)
            /\ UNCHANGED <<ldata, all_data, page_num>>

\* lines 75-79 after the first page gave the records `first`: the pagination
\* loop is entered, or the records are appended and the call returns
FirstPageDone(by, first) ==
    /\ extracted' = << [by |-> by, data |-> first] >>
    /\ IF config.given /\ config.pagination
       THEN /\ pc' = "paginate"
            /\ ldata' = first
            /\ all_data' = <<>>
            /\ page_num' = 2
            /\ UNCHANGED <<self_data, caught, browser, returned>>
       ELSE /\ Return(self_data \o first, NoException)
            /\ UNCHANGED <<ldata, all_data, page_num>>

\* line 71: sel is what _scrape_with_selectors did on the first page
FirstPageBySelectors(sel) ==
    /\ invoked' = <<"_scrape_with_selectors">>
    /\ runs' = runs
    /\ IF sel.exc # NoException
       THEN /\ Return(self_data, sel.exc)
            /\ UNCHANGED <<ldata, all_data, page_num, extracted>>
       ELSE FirstPageDone("_scrape_with_selectors", sel.data)

\* line 73: auto is what _auto_detect_and_scrape did on the first page
FirstPageAuto(auto) ==
    /\ invoked' = auto.invoked
    /\ runs' = runs \cup {[doc |-> site[1].doc, url |-> site[1].url, data |-> auto.data]}
    /\ FirstPageDone(auto.invoked[2], auto.data)

\* lines 59-79: the page loads and its records are extracted
GotoOk ==
    /\ pc = "goto"
    /\ page_idx' = 1
    /\ IF config.given /\ config.has_selectors
       THEN FirstPageBySelectors(SelectorScraped[site[1]][config.selectors])
       ELSE FirstPageAuto(AutoDetected[site[1]])
    /\ UNCHANGED <<ncalls, config, site, data_before>>
    /\ FnUnchanged

\* lines 492-493: auto is what _auto_detect_and_scrape did on the new page
NextPageAuto(auto) ==
    /\ invoked' = invoked \o auto.invoked
    /\ extracted' = Append(extracted, [by |-> auto.invoked[2], data |-> auto.data])
    /\ runs' = runs \cup {[doc |-> site[page_idx + 1].doc, url |-> site[page_idx + 1].url,
                           data |-> auto.data]}
    /\ all_data' = all_data \o auto.data

\* lines 462-493: a next button is clicked and the new page extracted
ClickOk ==
    /\ pc = "paginate"
    /\ page_num <= MaxPagesOf(config)
    /\ page_idx < Len(site)
    /\ page_idx' = page_idx + 1
    /\ NextPageAuto(AutoDetected[site[page_idx + 1]])
    /\ page_num' = page_num + 1
    /\ UNCHANGED <<self_data, pc, ncalls, config, site, browser, ldata, caught, returned,
                   data_before>>
    /\ FnUnchanged

\* a next button is clicked but page.content() raises
ClickThenContentRaises ==
    /\ pc = "paginate"
    /\ page_num <= MaxPagesOf(config)
    /\ page_idx < Len(site)
    /\ page_idx' = page_idx + 1
    /\ Return(self_data, [type |-> "Error", msg |-> "content"])
    /\ UNCHANGED <<ncalls, config, site, ldata, all_data, page_num, invoked, extracted,
                   runs, data_before>>
    /\ FnUnchanged

\* lines 77-79: _handle_pagination returns and the call's records are appended
EndPagination ==
    /\ Return(self_data \o (ldata \o all_data), NoException)
    /\ UNCHANGED <<ncalls, config, site, page_idx, ldata, all_data, page_num,
                   invoked, extracted, runs, data_before>>
    /\ FnUnchanged

\* lines 485-487: no next selector can be clicked
NoMorePages ==
    /\ pc = "paginate"
    /\ page_num <= MaxPagesOf(config)
    /\ EndPagination

\* the range(2, max_pages + 1) is exhausted
PagesExhausted ==
    /\ pc = "paginate"
    /\ page_num > MaxPagesOf(config)
    /\ EndPagination

Next ==
    \/ \E cfg \in Configs, s \in Sites : ScrapeUrl(cfg, s)
    \/ GotoRaises
    \/ GotoOk
    \/ ClickOk
    \/ ClickThenContentRaises
    \/ NoMorePages
    \/ PagesExhausted

Spec == Init /\ [][Next]_vars

\* a step of the running scrape_url call: the call is sequential code whose
\* waits (goto, click) all carry a timeout, so a started call keeps stepping
StepOfCall ==
    \/ GotoRaises
    \/ GotoOk
    \/ ClickOk
    \/ ClickThenContentRaises
    \/ NoMorePages
    \/ PagesExhausted

SpecLive == Spec /\ WF_vars(StepOfCall)

(***************************************************************************)
(* The classifier, the strategies and the extractors applied to any one    *)
(* of the explored documents                                               *)
(***************************************************************************)
FnUrl == "http://site/"

ScraperUnchanged ==
    UNCHANGED <<self_data, pc, ncalls, site, page_idx, browser, ldata, all_data,
                page_num, invoked, extracted, runs, caught, returned, data_before, soup>>

InitFn ==
    /\ self_data = <<>>
    /\ pc = "idle"
    /\ ncalls = 0
    /\ config = NoConfig
    /\ site = <<>>
    /\ page_idx = 0
    /\ browser = "closed"
    /\ ldata = <<>>
    /\ all_data = <<>>
    /\ page_num = 0
    /\ invoked = <<>>
    /\ extracted = <<>>
    /\ runs = {}
    /\ caught = NoException
    /\ returned = NotReturned
    /\ data_before = <<>>
    /\ soup \in Docs
    /\ fn = "none"
    /\ out = NoOut

\* one application per explored document
Apply(name, result) ==
    /\ fn = "none"
    /\ fn' = name
    /\ out' = result
    /\ ScraperUnchanged

DetectPageTypeFn ==
    /\ Apply("_detect_page_type", [NoOut EXCEPT !.page_type = DetectPageType(soup)])
    /\ UNCHANGED config

ScrapeTablesFn ==
    /\ Apply("_scrape_tables", [NoOut EXCEPT !.data = ScrapeTables(soup)])
    /\ UNCHANGED config

ScrapeListsFn ==
    /\ Apply("_scrape_lists", [NoOut EXCEPT !.data = ScrapeLists(soup)])
    /\ UNCHANGED config

ScrapeCardsFn ==
    /\ Apply("_scrape_cards", [NoOut EXCEPT !.data = ScrapeCards(soup)])
    /\ UNCHANGED config

ScrapeArticleFn ==
    /\ Apply("_scrape_article", [NoOut EXCEPT !.data = <<ScrapeArticle(soup, FnUrl)>>])
    /\ UNCHANGED config

ScrapeProductsFn ==
    /\ Apply("_scrape_products", [NoOut EXCEPT !.data = ScrapeProducts(soup)])
    /\ UNCHANGED config

ScrapeGenericFn ==
    /\ Apply("_scrape_generic", [NoOut EXCEPT !.data = ScrapeGeneric(soup)])
    /\ UNCHANGED config

\* the result r of a function, as the value of out
AsOut(r) ==
    [page_type |-> r.page_type, invoked |-> r.invoked, data |-> r.data, exc |-> r.exc]

AutoDetectAndScrapeFn ==
    /\ Apply("_auto_detect_and_scrape",
             AsOut([exc |-> NoException] @@ AutoDetectAndScrape(soup, FnUrl)))
    /\ UNCHANGED config

ScrapeWithSelectorsFn(selectors) ==
    /\ Apply("_scrape_with_selectors",
             AsOut([page_type |-> "", invoked |-> <<>>] @@ ScrapeWithSelectors(soup, selectors)))
    /\ config' = [NoConfig EXCEPT !.given = TRUE, !.has_selectors = TRUE,
                                  !.selectors = selectors]

NextFn ==
    \/ DetectPageTypeFn
    \/ ScrapeTablesFn
    \/ ScrapeListsFn
    \/ ScrapeCardsFn
    \/ ScrapeArticleFn
    \/ ScrapeProductsFn
    \/ ScrapeGenericFn
    \/ AutoDetectAndScrapeFn
    \/ \E selectors \in SelectorSets : ScrapeWithSelectorsFn(selectors)

SpecFn == InitFn /\ [][NextFn]_vars

(***************************************************************************)
(* Properties                                                              *)
(***************************************************************************)

\* C1: _detect_page_type returns exactly one of the six labels, the label of
\* the first check that holds in the order Table, Products, Cards, List,
\* Article, Generic; a document with a table of more than 2 rows is Table
\* whatever other signals it shows, and Generic means that no check holds.
C1_ClassifierPriority ==
    fn \in {"_detect_page_type", "_auto_detect_and_scrape"} =>
        LET holds == <<TableCheck(soup), EcommerceCheck(soup), CardsCheck(soup),
                       ListCheck(soup), ArticleCheck(soup), TRUE>>
            labels == <<"table", "ecommerce", "cards", "list", "article", "generic">>
            first == CHOOSE k \in 1..6 : holds[k] /\ \A j \in 1..(k - 1) : ~holds[j]
            bigTable == \E t \in 1..Len(soup) :
                            /\ soup[t].tag = "table"
                            /\ Cardinality({r \in 1..Len(soup) :
                                   soup[r].tag = "tr" /\ soup[r].parent = t}) > 2
        IN  /\ out.page_type = labels[first]
            /\ bigTable => out.page_type = "table"
            /\ out.page_type = "generic" => \A k \in 1..5 : ~holds[k]

\* a page with a 3-row table and cards, list and article signals was classified
C1_Witness ==
    /\ fn = "_detect_page_type"
    /\ out.page_type = "table"
    /\ CardsCheck(soup) /\ ListCheck(soup) /\ ArticleCheck(soup)

\* C2: when the config supplies selectors, every page of the call (the first
\* and those reached through pagination) is extracted by the selector-driven
\* extractor and the classifier is never invoked.
C2_SelectorsOnEveryPage ==
    (config.given /\ config.has_selectors) =>
        /\ \A k \in 1..Len(invoked) : invoked[k] # "_detect_page_type"
        /\ \A k \in 1..Len(extracted) : extracted[k].by = "_scrape_with_selectors"

C4_RaisesConfigurationError ==
    (/\ pc = "idle"
     /\ page_idx >= 1
     /\ config.given /\ config.has_selectors
     /\ \E k \in 1..Len(config.selectors) : config.selectors[k][2].kind = "invalid")
        => /\ returned.kind = "raised"
           /\ returned.exc.type = "ConfigurationError"

\* C4 amended: an invalid selector that is evaluated (the container selector,
\* or a field selector when a container matched) raises the selector engine's
\* SelectorSyntaxError carrying the pattern; scrape_url handles it, appends no
\* record, closes the browser and returns the accumulated data.  An invalid
\* field selector is not evaluated when no container matches.
C4_SelectorErrorAbsorbed ==
    (/\ pc = "idle"
     /\ page_idx >= 1
     /\ config.given /\ config.has_selectors)
        => LET sels == config.selectors
               doc == site[1].doc
               hasMain == \E k \in 1..Len(sels) : sels[k][1] = "container"
               main == IF hasMain
                       THEN sels[CHOOSE k \in 1..Len(sels) : sels[k][1] = "container"][2]
                       ELSE TagSel("body")
               matched == main = TagSel("body") \/
                          \E i \in 1..Len(doc) : SelMatches(doc[i], main)
               badFields == {k \in 1..Len(sels) :
                               sels[k][1] # "container" /\ sels[k][2].kind = "invalid"}
               evaluated == main.kind = "invalid" \/ (matched /\ badFields # {})
           IN  /\ evaluated =>
                     /\ caught.type = "SelectorSyntaxError"
                     /\ \E k \in 1..Len(sels) :
                            sels[k][2].kind = "invalid" /\ caught.msg = sels[k][2].pat
                     /\ returned = [kind |-> "value", exc |-> NoException,
                                    value |-> data_before]
                     /\ self_data = data_before
                     /\ extracted = <<>>
                     /\ browser = "closed"
               /\ ~evaluated => caught.type # "SelectorSyntaxError"

\* a call with an invalid field selector ended after an earlier call had stored
\* records
C4_Witness ==
    /\ pc = "idle"
    /\ caught.type = "SelectorSyntaxError"
    /\ \E k \in 1..Len(config.selectors) :
           /\ config.selectors[k][1] # "container"
           /\ config.selectors[k][2].pat = caught.msg
    /\ data_before # <<>>
    /\ returned.kind = "value"

\* C5: without a config the dispatcher invokes exactly one strategy, the one
\* of the classified page type, and returns that strategy's records even when
\* there are none; it never falls back on another strategy.
C5_OneStrategyNoFallback ==
    fn = "_auto_detect_and_scrape" =>
        /\ Len(out.invoked) = 2
        /\ out.invoked[1] = "_detect_page_type"
        /\ out.page_type = "table" =>
              out.invoked[2] = "_scrape_tables" /\ out.data = ScrapeTables(soup)
        /\ out.page_type = "list" =>
              out.invoked[2] = "_scrape_lists" /\ out.data = ScrapeLists(soup)
        /\ out.page_type = "cards" =>
              out.invoked[2] = "_scrape_cards" /\ out.data = ScrapeCards(soup)
        /\ out.page_type = "article" =>
              out.invoked[2] = "_scrape_article" /\ out.data = <<ScrapeArticle(soup, FnUrl)>>
        /\ out.page_type = "ecommerce" =>
              out.invoked[2] = "_scrape_products" /\ out.data = ScrapeProducts(soup)
        /\ out.page_type = "generic" =>
              out.invoked[2] = "_scrape_generic" /\ out.data = ScrapeGeneric(soup)

\* a page classified cards whose card elements are not <div>: no records,
\* although the generic strategy would have produced some
C5_Witness ==
    /\ fn = "_auto_detect_and_scrape"
    /\ out.page_type = "cards"
    /\ out.data = <<>>
    /\ ScrapeGeneric(soup) # <<>>

\* C6: the records emitted for a table are as many as its data rows with at
\* least one non-empty cell among the first N columns (N the header length);
\* a data row whose first N cells are all empty produces no record.
C6_RecordsAreNonEmptyRows ==
    fn = "_scrape_tables" =>
        LET IsCell(c) == soup[c].tag \in {"td", "th"}
            RowsOf(t) == {r \in 1..Len(soup) : soup[r].tag = "tr" /\ soup[r].parent = t}
            HeaderOf(t) == CHOOSE r \in RowsOf(t) : \A q \in RowsOf(t) : r <= q
            CellsOf(r) == {c \in 1..Len(soup) : IsCell(c) /\ soup[c].parent = r}
            Column(c) == Cardinality({d \in CellsOf(soup[c].parent) : d <= c})
            counted == {r \in 1..Len(soup) :
                          /\ soup[r].tag = "tr"
                          /\ soup[r].parent # 0
                          /\ soup[soup[r].parent].tag = "table"
                          /\ r # HeaderOf(soup[r].parent)
                          /\ \E c \in CellsOf(r) :
                                /\ Column(c) <= Cardinality(CellsOf(HeaderOf(soup[r].parent)))
                                /\ soup[c].text # <<>>}
        IN  Len(out.data) = Cardinality(counted)

\* the list whose items the record rec of _scrape_lists comes from
ListOfRecord(rec) ==
    SelectSeq(Indices(soup), LAMBDA i : soup[i].tag \in {"ul", "ol"})
        [DictGet(rec, K("_list_index")).n + 1]

DirectItems(lst) ==
    Cardinality({i \in 1..Len(soup) : soup[i].tag = "li" /\ soup[i].parent = lst})

\* C7 as stated: every record of _scrape_lists comes from a ul/ol with more
\* than 3 direct <li> items.
C7_OnlyListsOverThree ==
    fn = "_scrape_lists" =>
        \A k \in 1..Len(out.data) : DirectItems(ListOfRecord(out.data[k])) > 3

\* C7 amended: every record of _scrape_lists comes from a ul/ol with at least
\* 3 direct <li> items; lists with fewer than 3 are skipped.
C7_OnlyListsOfThreeOrMore ==
    fn = "_scrape_lists" =>
        /\ \A k \in 1..Len(out.data) : DirectItems(ListOfRecord(out.data[k])) >= 3
        /\ \A l \in 1..Len(soup) :
              (soup[l].tag \in {"ul", "ol"} /\ DirectItems(l) >= 3)
                  => \E k \in 1..Len(out.data) : ListOfRecord(out.data[k]) = l

\* records were emitted for a list of exactly 3 direct items
C7_Witness ==
    /\ fn = "_scrape_lists"
    /\ \E k \in 1..Len(out.data) : DirectItems(ListOfRecord(out.data[k])) = 3

\* the record of plain item k (0-based) of the first list
PlainItemRecord(k) ==
    << <<K("text"), PyStr(T("Entry"))>>,
       <<K("_list_index"), PyInt(0)>>,
       <<K("_item_index"), PyInt(k)>> >>

\* C8 as stated: a document that is one <ul> of 4 plain <li> items is
\* classified List and dispatch yields its 4 records in item order.
C8_FourItemListIsList ==
    (fn = "_auto_detect_and_scrape" /\ soup = ListFrag("ul", Repeat(PlainLi, 4))) =>
        /\ out.page_type = "list"
        /\ out.data = [k \in 1..4 |-> PlainItemRecord(k - 1)]

\* C8 amended: a document that is one <ul> of n plain <li> items is
\* classified List only when n > 5, and dispatch then yields n records in
\* item order, each with text, _list_index 0, _item_index 0..n-1 and no
\* link; with 4 items (any n <= 5) it is classified Generic and dispatch
\* yields no record.
C8_PlainListDispatch ==
    \A n \in 0..MaxListItems :
        (fn = "_auto_detect_and_scrape" /\ soup = ListFrag("ul", Repeat(PlainLi, n))) =>
            IF n > 5
            THEN /\ out.page_type = "list"
                 /\ out.data = [k \in 1..n |-> PlainItemRecord(k - 1)]
                 /\ \A k \in 1..n : ~HasKey(out.data[k], K("link"))
            ELSE /\ out.page_type = "generic"
                 /\ out.data = <<>>

\* the 4-item list was dispatched
C8_Witness ==
    /\ fn = "_auto_detect_and_scrape"
    /\ soup = ListFrag("ul", Repeat(PlainLi, 4))
    /\ out.page_type = "generic"

\* <div> elements whose class matches pattern k of card, tile, grid-item, box
DivsMatching(k) ==
    SelectSeq(Indices(soup), LAMBDA i :
        soup[i].tag = "div" /\ ClassMatches(soup[i], CardSelectors[k]))

RecordsOfDivs(k) ==
    [i \in 1..Len(DivsMatching(k)) |-> CardRecord(soup, DivsMatching(k)[i], i - 1)]

\* some single pattern among card, tile, grid-item matches more than 3 elements
OnePatternOverThree ==
    \E k \in 1..3 :
        Cardinality({i \in 1..Len(soup) : ClassMatches(soup[i], CardSelectors[k])}) > 3

\* C9 as stated: Cards is returned only if one of the patterns card, tile,
\* grid-item alone matches more than 3 elements, and Cards extraction emits
\* the records of the elements of exactly one of those three candidate sets.
C9_OneOfThreeSets ==
    /\ (fn \in {"_detect_page_type", "_auto_detect_and_scrape"} /\ out.page_type = "cards")
          => OnePatternOverThree
    /\ fn = "_scrape_cards" => \E k \in 1..3 : out.data = RecordsOfDivs(k)

\* C9 amended: Cards is returned only if one of the patterns card, tile,
\* grid-item alone matches more than 3 elements, and Cards extraction emits
\* the records of the <div> elements of exactly one of four candidate sets
\* (card, tile, grid-item, box): the first one of the largest size.
C9_OneOfFourSets ==
    /\ (fn \in {"_detect_page_type", "_auto_detect_and_scrape"} /\ out.page_type = "cards")
          => OnePatternOverThree
    /\ fn = "_scrape_cards" =>
          \E k \in 1..4 :
              /\ out.data = RecordsOfDivs(k)
              /\ \A j \in 1..4 : Len(DivsMatching(j)) <= Len(DivsMatching(k))
              /\ \A j \in 1..(k - 1) : Len(DivsMatching(j)) < Len(DivsMatching(k))

\* the box set won over a smaller, non-empty card set
C9_Witness ==
    /\ fn = "_scrape_cards"
    /\ Len(DivsMatching(1)) > 0
    /\ Len(DivsMatching(4)) > Len(DivsMatching(1))
    /\ out.data = RecordsOfDivs(4)

\* C10: no record of any extraction strategy holds a field whose value is
\* null; a field whose source element or attribute is missing is omitted.
C10_NoNullField ==
    fn # "none" =>
        \A k \in 1..Len(out.data) : \A f \in 1..Len(out.data[k]) :
            out.data[k][f][2].t # "none"

\* C11: the classifier's List check counts only direct <li> children: the
\* label List is returned only if some single ul/ol has more than 5 <li>
\* elements that are its direct children.
C11_ListCountsDirectChildren ==
    (fn \in {"_detect_page_type", "_auto_detect_and_scrape"} /\ out.page_type = "list")
        => \E l \in 1..Len(soup) : soup[l].tag \in {"ul", "ol"} /\ DirectItems(l) > 5

\* the <tr> rows of table t and the cells of row r, in document order
RowsIn(t) ==
    SelectSeq(Indices(soup), LAMBDA r : soup[r].tag = "tr" /\ soup[r].parent = t)

CellsIn(r) ==
    SelectSeq(Indices(soup), LAMBDA c : soup[c].tag \in {"td", "th"} /\ soup[c].parent = r)

\* the column names of table t: the texts of its first row, or Column_1..N
HeaderOfTable(t) ==
    LET cells == CellsIn(RowsIn(t)[1]) IN
    IF \A i \in 1..Len(cells) : soup[cells[i]].text = <<>>
    THEN [i \in 1..Len(cells) |-> <<"Column_", DigitStr(i)>>]
    ELSE [i \in 1..Len(cells) |-> soup[cells[i]].text]

\* number of columns of data row r that reach a record
MappedColumns(r) ==
    LET h == Len(HeaderOfTable(soup[r].parent))
        c == Len(CellsIn(r))
    IN  IF h < c THEN h ELSE c

\* the data rows a record is emitted for, in table order then row order
EmittingRows ==
    SelectSeq(Indices(soup), LAMBDA r :
        /\ soup[r].tag = "tr"
        /\ soup[r].parent # 0
        /\ soup[soup[r].parent].tag = "table"
        /\ Len(RowsIn(soup[r].parent)) >= 2
        /\ r # RowsIn(soup[r].parent)[1]
        /\ MappedColumns(r) >= 1)

\* rec has the column names of the first MappedColumns(r) columns and
\* _table_index as its fields, and _table_index is the 0-based position of
\* the row's table among the tables of the document
RecordShapeOfRow(rec, r) ==
    /\ {rec[f][1] : f \in 1..Len(rec)} =
          {HeaderOfTable(soup[r].parent)[i] : i \in 1..MappedColumns(r)} \cup {K("_table_index")}
    /\ \A f, g \in 1..Len(rec) : rec[f][1] = rec[g][1] => f = g
    /\ DictGet(rec, K("_table_index")) =
          PyInt(Cardinality({j \in 1..(soup[r].parent - 1) : soup[j].tag = "table"}))

\* C12 as stated: every record of _scrape_tables holds header[i] -> text of
\* cell i for exactly the indices i < min(header length, cells of the row),
\* plus _table_index, the 0-based position of the table among all tables;
\* records appear in table order then row order.
C12_PositionalMapping ==
    fn = "_scrape_tables" =>
        /\ Len(out.data) = Len(EmittingRows)
        /\ \A k \in 1..Len(out.data) :
              /\ RecordShapeOfRow(out.data[k], EmittingRows[k])
              /\ \A i \in 1..MappedColumns(EmittingRows[k]) :
                    DictGet(out.data[k], HeaderOfTable(soup[EmittingRows[k]].parent)[i])
                        = PyStr(soup[CellsIn(EmittingRows[k])[i]].text)

\* C12 amended: as stated, except that a column name occurring more than
\* once among the mapped columns gives one field, holding the text of the
\* last cell under that name.
C12_PositionalMappingLastWins ==
    fn = "_scrape_tables" =>
        /\ Len(out.data) = Len(EmittingRows)
        /\ \A k \in 1..Len(out.data) :
              /\ RecordShapeOfRow(out.data[k], EmittingRows[k])
              /\ \A i \in 1..MappedColumns(EmittingRows[k]) :
                    (\A j \in (i + 1)..MappedColumns(EmittingRows[k]) :
                        HeaderOfTable(soup[EmittingRows[k]].parent)[j]
                            # HeaderOfTable(soup[EmittingRows[k]].parent)[i])
                    => DictGet(out.data[k], HeaderOfTable(soup[EmittingRows[k]].parent)[i])
                           = PyStr(soup[CellsIn(EmittingRows[k])[i]].text)

\* the second table of a document, under a header naming both columns Name,
\* gave a row with an extra cell and a row with a missing cell
C12_Witness ==
    /\ fn = "_scrape_tables"
    /\ soup = AfterShortTable(<<T("Name"), T("Name")>>)
    /\ out.data = << << <<T("Name"), PyStr(T("7"))>>, <<K("_table_index"), PyInt(1)>> >>,
                     << <<T("Name"), PyStr(T("Bob"))>>, <<K("_table_index"), PyInt(1)>> >> >>

\* the ul/ol elements of the document, in document order
AllLists == SelectSeq(Indices(soup), LAMBDA i : soup[i].tag \in {"ul", "ol"})

\* the <li> elements that are direct children of lst, in document order
DirectItemsOf(lst) ==
    SelectSeq(Indices(soup), LAMBDA i : soup[i].tag = "li" /\ soup[i].parent = lst)

\* the positions in out.data of the records carrying _list_index l
RecordsOfList(l) ==
    {k \in 1..Len(out.data) : DictGet(out.data[k], K("_list_index")) = PyInt(l)}

\* C13: in List extraction every <li> yields at most one record, attributed
\* to the list that is its direct parent: _list_index is the position of that
\* parent among all ul/ol elements in document order, _item_index the 0-based
\* position of the item among that parent's direct <li> children; within one
\* _list_index the _item_index values are exactly 0..k-1 without repeats, and
\* no <li> of a nested list is emitted under the enclosing list's index.
C13_ItemsOfDirectParent ==
    fn = "_scrape_lists" =>
        /\ \A k \in 1..Len(out.data) :
              LET l == DictGet(out.data[k], K("_list_index"))
                  i == DictGet(out.data[k], K("_item_index"))
              IN  /\ l.t = "int" /\ l.n \in 0..(Len(AllLists) - 1)
                  /\ i.t = "int" /\ i.n \in 0..(Len(DirectItemsOf(AllLists[l.n + 1])) - 1)
                  /\ DictGet(out.data[k], K("text")) =
                        PyStr(GetText(soup, DirectItemsOf(AllLists[l.n + 1])[i.n + 1]))
        /\ \A k, j \in 1..Len(out.data) :
              (/\ DictGet(out.data[k], K("_list_index")) = DictGet(out.data[j], K("_list_index"))
               /\ DictGet(out.data[k], K("_item_index")) = DictGet(out.data[j], K("_item_index")))
                  => k = j
        /\ \A l \in 0..(Len(AllLists) - 1) :
              /\ Cardinality(RecordsOfList(l)) \in {0, Len(DirectItemsOf(AllLists[l + 1]))}
              /\ {DictGet(out.data[k], K("_item_index")).n : k \in RecordsOfList(l)}
                    = 0..(Cardinality(RecordsOfList(l)) - 1)

\* a list nested in an item of another list: both lists gave records, each
\* as many as its own direct items
C13_Witness ==
    /\ fn = "_scrape_lists"
    /\ \E outer, inner \in 0..(Len(AllLists) - 1) :
          /\ IsDesc(soup, AllLists[outer + 1], AllLists[inner + 1])
          /\ Cardinality(RecordsOfList(outer)) = Len(DirectItemsOf(AllLists[outer + 1]))
          /\ Cardinality(RecordsOfList(inner)) = Len(DirectItemsOf(AllLists[inner + 1]))
          /\ RecordsOfList(outer) # {}
          /\ RecordsOfList(inner) # {}

\* the candidate containers of _scrape_products, in document order
ProductCandidates ==
    SelectSeq(Indices(soup), LAMBDA i : ClassMatches(soup[i], {"product", "item"}))

\* the first element under c that satisfies one of the tests, or 0
FirstUnder(c, S) ==
    IF \E i \in S : IsDesc(soup, c, i)
    THEN CHOOSE i \in S : IsDesc(soup, c, i) /\ \A j \in S : IsDesc(soup, c, j) => i <= j
    ELSE 0

\* the name element of candidate c: the first element of a name or title
\* class, else the first h2/h3/h4; and its price element
NameElement(c) ==
    LET byClass == FirstUnder(c, {i \in 1..Len(soup) :
                                    ClassMatches(soup[i], {"product.*name", "title"})})
    IN  IF byClass # 0 THEN byClass
        ELSE FirstUnder(c, {i \in 1..Len(soup) : soup[i].tag \in {"h2", "h3", "h4"}})

PriceElement(c) ==
    FirstUnder(c, {i \in 1..Len(soup) : ClassMatches(soup[i], {"price"})})

\* the text of element e, empty when there is no element
TextOrEmpty(e) == IF e = 0 THEN <<>> ELSE GetText(soup, e)

\* a record carrying _product_index p was emitted
ProductEmitted(p) ==
    \E k \in 1..Len(out.data) : DictGet(out.data[k], K("_product_index")) = PyInt(p)

\* every emitted product record has a name or a price field and carries
\* _product_index, the position of its container among the candidates
EmittedProductsWellFormed ==
    \A k \in 1..Len(out.data) :
        /\ HasKey(out.data[k], K("name")) \/ HasKey(out.data[k], K("price"))
        /\ HasKey(out.data[k], K("_product_index"))
        /\ DictGet(out.data[k], K("_product_index")).n \in 0..(Len(ProductCandidates) - 1)
        /\ \A j \in 1..(k - 1) : DictGet(out.data[j], K("_product_index")).n
                                    < DictGet(out.data[k], K("_product_index")).n

\* C14 as stated: a candidate container is kept if and only if a name element
\* or a price element was found in it; every emitted record has a name or a
\* price field and carries _product_index.
C14_KeptIffElementFound ==
    fn = "_scrape_products" =>
        /\ EmittedProductsWellFormed
        /\ \A p \in 1..Len(ProductCandidates) :
              ProductEmitted(p - 1) <=>
                  (NameElement(ProductCandidates[p]) # 0 \/ PriceElement(ProductCandidates[p]) # 0)

\* C14 amended: a candidate container is kept if and only if its name element
\* or its price element has non-empty text; every emitted record has a name
\* or a price field and carries _product_index.
C14_KeptIffTextFound ==
    fn = "_scrape_products" =>
        /\ EmittedProductsWellFormed
        /\ \A p \in 1..Len(ProductCandidates) :
              ProductEmitted(p - 1) <=>
                  (\/ TextOrEmpty(NameElement(ProductCandidates[p])) # <<>>
                   \/ TextOrEmpty(PriceElement(ProductCandidates[p])) # <<>>)

\* a container whose name element is empty was dropped and a later container
\* with a price was kept
C14_Witness ==
    /\ fn = "_scrape_products"
    /\ \E p, q \in 1..Len(ProductCandidates) :
          /\ p < q
          /\ NameElement(ProductCandidates[p]) # 0
          /\ TextOrEmpty(NameElement(ProductCandidates[p])) = <<>>
          /\ PriceElement(ProductCandidates[p]) = 0
          /\ ~ProductEmitted(p - 1)
          /\ PriceElement(ProductCandidates[q]) # 0
          /\ ProductEmitted(q - 1)

\* the headings of the document, in document order
AllHeadings == SelectSeq(Indices(soup), LAMBDA i : soup[i].tag \in HeadingTags)

\* the hyperlinks with a non-empty href and a text of more than 2 characters
QualifyingLinks ==
    SelectSeq(Indices(soup), LAMBDA i :
        /\ soup[i].tag = "a"
        /\ soup[i].href.has
        /\ soup[i].href.v # <<>>
        /\ StrLen(GetText(soup, i)) > 2)

\* the first and the last qualifying hyperlink with href h
FirstWithHref(h) ==
    CHOOSE i \in 1..Len(QualifyingLinks) :
        /\ soup[QualifyingLinks[i]].href.v = h
        /\ \A j \in 1..(i - 1) : soup[QualifyingLinks[j]].href.v # h

LastWithHref(h) ==
    CHOOSE i \in 1..Len(QualifyingLinks) :
        /\ soup[QualifyingLinks[i]].href.v = h
        /\ \A j \in (i + 1)..Len(QualifyingLinks) : soup[QualifyingLinks[j]].href.v # h

\* entries is the list of <<url, text>> pairs of the links record: one entry
\* per distinct href, in first-occurrence order, with the last text
LinksDeduplicated(entries) ==
    /\ {entries[e][1] : e \in 1..Len(entries)}
          = {soup[QualifyingLinks[i]].href.v : i \in 1..Len(QualifyingLinks)}
    /\ \A e, f \in 1..Len(entries) :
          e < f => FirstWithHref(entries[e][1]) < FirstWithHref(entries[f][1])
    /\ \A e \in 1..Len(entries) :
          entries[e][2] = GetText(soup, QualifyingLinks[LastWithHref(entries[e][1])])

\* C15: generic extraction emits the heading records first and then at most
\* one trailing links record: it has exactly one entry per distinct href
\* among the hyperlinks with non-empty href and text longer than 2
\* characters, in order of each href's first occurrence, with the text of the
\* last qualifying hyperlink of that href; there is no links record when no
\* hyperlink qualifies.
C15_HeadingsThenLinks ==
    fn = "_scrape_generic" =>
        /\ Len(out.data) = Len(AllHeadings) + (IF QualifyingLinks = <<>> THEN 0 ELSE 1)
        /\ \A k \in 1..Len(AllHeadings) :
              /\ DictGet(out.data[k], K("type")) = PyStr(<<soup[AllHeadings[k]].tag>>)
              /\ DictGet(out.data[k], K("text")) = PyStr(GetText(soup, AllHeadings[k]))
        /\ QualifyingLinks # <<>> =>
              /\ DictGet(out.data[Len(out.data)], K("type")) = PyStr(<<"links">>)
              /\ DictGet(out.data[Len(out.data)], K("links")).t = "list"
              /\ LinksDeduplicated(DictGet(out.data[Len(out.data)], K("links")).l)

\* a links record of two entries followed a heading record: an href seen
\* twice with different texts, and a hyperlink that did not qualify
C15_Witness ==
    /\ fn = "_scrape_generic"
    /\ Len(AllHeadings) >= 1
    /\ Len(out.data) = Len(AllHeadings) + 1
    /\ Len(DictGet(out.data[Len(out.data)], K("links")).l) = 2
    /\ \E i, j \in 1..Len(QualifyingLinks) :
          /\ i < j
          /\ soup[QualifyingLinks[i]].href.v = soup[QualifyingLinks[j]].href.v
          /\ GetText(soup, QualifyingLinks[i]) # GetText(soup, QualifyingLinks[j])
    /\ \E i \in 1..Len(soup) :
          /\ soup[i].tag = "a"
          /\ soup[i].href.has
          /\ StrLen(GetText(soup, i)) <= 2
          /\ \E j \in 1..Len(QualifyingLinks) :
                j > 1 /\ QualifyingLinks[j] > i /\ soup[QualifyingLinks[j]].href.v = soup[i].href.v

\* C16: scrape_url is all-or-nothing per call: when the page load, the
\* extraction of the first page or a step of pagination raises, self.data is
\* exactly what it was before the call, even if the first page's records were
\* already extracted; the browser is closed on every path and scrape_url
\* returns the accumulated data without raising.
C16_AllOrNothing ==
    (pc = "idle" /\ ncalls > 0) =>
        /\ browser = "closed"
        /\ returned.kind = "value"
        /\ returned.exc = NoException
        /\ returned.value = self_data
        /\ caught # NoException => self_data = data_before
        /\ caught = NoException =>
              self_data = data_before \o Flatten([k \in 1..Len(extracted) |-> extracted[k].data])

\* a second call extracted records from its first page, then a pagination
\* step raised: self.data is what the first call left
C16_Witness ==
    /\ pc = "idle"
    /\ ncalls = 2
    /\ caught = [type |-> "Error", msg |-> "content"]
    /\ extracted # <<>>
    /\ extracted[1].data # <<>>
    /\ data_before # <<>>
    /\ self_data = data_before
    /\ browser = "closed"

\* the most pages a call may extract after the first: max_pages - 1, with
\* max_pages 5 when the config names none, and 0 when max_pages <= 1
AdditionalPagesLimit ==
    IF ~(config.given /\ config.pagination) THEN 0
    ELSE IF ~config.has_max_pages THEN 4
    ELSE IF config.max_pages <= 1 THEN 0
    ELSE config.max_pages - 1

\* the records of the pages the browser showed, in the order of the visits
RecordsInVisitOrder ==
    Flatten([k \in 1..Len(extracted) |-> AutoDetected[site[k]].data])

\* C17: the pagination loop always terminates and processes at most
\* max_pages - 1 additional pages (default max_pages 5, none when
\* max_pages <= 1); it stops at the first iteration in which no next button
\* can be clicked, extracts a page only after a successful click, and the
\* pages' records are appended in the order the pages were visited.
C17_PaginationTerminates ==
    /\ [](/\ Len(extracted) <= 1 + AdditionalPagesLimit
          /\ Len(extracted) <= page_idx
          /\ (pc = "idle" /\ ncalls > 0 /\ caught = NoException /\ ~config.has_selectors)
                => self_data = data_before \o RecordsInVisitOrder)
    /\ [][pc = "paginate" =>
            /\ extracted' # extracted =>
                  (page_idx' = page_idx + 1 /\ Len(extracted') = Len(extracted) + 1)
            /\ page_num' = page_num => (pc' = "idle" /\ extracted' = extracted)]_vars
    /\ (pc = "paginate") ~> (pc = "idle")

\* a call without max_pages on a site of 6 pages ended after 4 additional
\* pages, with the records of the 5 pages appended
C17_Witness ==
    /\ pc = "idle"
    /\ config.given /\ config.pagination /\ ~config.has_max_pages
    /\ caught = NoException
    /\ Len(site) = 6
    /\ page_idx = 5
    /\ Len(extracted) = 5
    /\ self_data = data_before \o RecordsInVisitOrder

====
